---- MODULE Spec2Model ----
(* Model of main.py: the Gabor texture batch (extraire_texture_gabor and      *)
(* balayer_et_traiter_images) over a small file system.  Strings are tuples   *)
(* of one-character strings so that join, split, fnmatch, sort and replace    *)
(* are computed as Python computes them.                                      *)
EXTENDS Integers, Sequences, FiniteSets, TLC

\* ---------------------------------------------------------------- bounds
MaxFiles == 3
MaxRuns == 2

\* ------------------------------------------------------- string literals
SEP == "/"
PREFIXE == <<"f","r","a","g","_","e","r","o","d","e","d","_">>
PPM == <<".","p","p","m">>
PNG == <<".","p","n","g">>
TEXTURE == <<"t","e","x","t","u","r","e","_">>
TEXTURES_TRAITEES == <<"t","e","x","t","u","r","e","s","_","t","r","a","i","t","e","e","s">>

\* code points of the characters that occur in the modelled names
Ord(c) ==
  CASE c = "." -> 46 [] c = "/" -> 47 [] c = "0" -> 48 [] c = "7" -> 55
    [] c = "_" -> 95 [] c = "a" -> 97 [] c = "d" -> 100 [] c = "e" -> 101
    [] c = "f" -> 102 [] c = "g" -> 103 [] c = "i" -> 105 [] c = "m" -> 109
    [] c = "n" -> 110 [] c = "o" -> 111 [] c = "p" -> 112 [] c = "r" -> 114
    [] c = "s" -> 115 [] c = "t" -> 116 [] c = "u" -> 117 [] c = "x" -> 120

\* ------------------------------------------------------- modelled inputs
\* directory entries the root may hold: three names matching the pattern
\* (one plain, two with an inner extension) and one that does not match
NomsPossibles ==
  { PREFIXE \o <<"0","0","0","7">> \o PPM,
    PREFIXE \o <<"a">> \o PPM \o PPM,
    PREFIXE \o <<"a">> \o PNG \o PPM,
    PREFIXE \o <<"0","0","0","7">> \o PNG }

\* a file is decodable ("ok", with a pixel value), not decodable by imread
\* ("illisible"), or decodable but rejected by a processing stage ("invalide")
Fichiers ==
  { [kind |-> "ok", pix |-> 0], [kind |-> "ok", pix |-> 1],
    [kind |-> "illisible", pix |-> 0], [kind |-> "invalide", pix |-> 0] }

Racines == { <<"d">>, <<"d", "/">> }

None == [fmt |-> "none", pix |-> 0]

\* ------------------------------------------------------ string functions
StartsWith(s, p) == Len(s) >= Len(p) /\ SubSeq(s, 1, Len(p)) = p
EndsWith(s, p) == Len(s) >= Len(p) /\ SubSeq(s, Len(s) - Len(p) + 1, Len(s)) = p

\* str.replace(old, new): every non-overlapping occurrence, left to right
RECURSIVE Replace(_, _, _)
Replace(s, old, new) ==
  IF Len(s) < Len(old) THEN s
  ELSE IF SubSeq(s, 1, Len(old)) = old
       THEN new \o Replace(SubSeq(s, Len(old) + 1, Len(s)), old, new)
       ELSE <<Head(s)>> \o Replace(Tail(s), old, new)

\* posixpath.join(a, b)
Join(a, b) ==
  IF StartsWith(b, <<SEP>>) THEN b
  ELSE IF a = <<>> \/ EndsWith(a, <<SEP>>) THEN a \o b
  ELSE a \o <<SEP>> \o b

LastSep(p) ==
  LET S == { i \in 1..Len(p) : p[i] = SEP }
  IN IF S = {} THEN 0 ELSE CHOOSE i \in S : \A j \in S : j <= i

RECURSIVE RStripSep(_)
RStripSep(s) ==
  IF s # <<>> /\ s[Len(s)] = SEP THEN RStripSep(SubSeq(s, 1, Len(s) - 1)) ELSE s

\* posixpath.dirname(p)
Dirname(p) ==
  LET head == SubSeq(p, 1, LastSep(p))
  IN IF head # <<>> /\ (\E i \in 1..Len(head) : head[i] # SEP)
     THEN RStripSep(head) ELSE head

BasenameFull(p) == p

\* posixpath.basename(p)
Basename(p) == SubSeq(p, LastSep(p) + 1, Len(p))

\* lexicographic order of str, by code point
RECURSIVE StrLess(_, _)
StrLess(a, b) ==
  IF b = <<>> THEN FALSE
  ELSE IF a = <<>> THEN TRUE
  ELSE IF Head(a) # Head(b) THEN Ord(Head(a)) < Ord(Head(b))
  ELSE StrLess(Tail(a), Tail(b))

RECURSIVE SortedReversed(_)
SortedReversed(S) ==
  IF S = {} THEN <<>>
  ELSE LET m == CHOOSE x \in S : \A y \in S \ {x} : StrLess(y, x)
       IN <<m>> \o SortedReversed(S \ {m})

\* sorted(...) of a list of distinct strings
RECURSIVE Sorted(_)
Sorted(S) ==
  IF S = {} THEN <<>>
  ELSE LET m == CHOOSE x \in S : \A y \in S \ {x} : StrLess(x, y)
       IN <<m>> \o Sorted(S \ {m})

\* fnmatch of a name against frag_eroded_*.ppm
Fnmatch(name) ==
  /\ Len(name) >= Len(PREFIXE) + Len(PPM)
  /\ StartsWith(name, PREFIXE)
  /\ EndsWith(name, PPM)

\* glob.glob(os.path.join(root, 'frag_eroded_*.ppm')) over the entries of root
Glob(root, entries) ==
  LET chemin_recherche == Join(root, PREFIXE \o <<"*">> \o PPM)
  IN { Join(Dirname(chemin_recherche), n) : n \in { e \in entries : Fnmatch(e) } }

Put(f, k, v) == [x \in (DOMAIN f) \cup {k} |-> IF x = k THEN v ELSE f[x]]


\* --------------------------------------------------------------- state
VARIABLES
  repertoire_racine,  \* argument of balayer_et_traiter_images
  dir,                \* entries of the root directory: name -> file
  outKind,            \* textures_traitees under the root: "absent", "dir", "file"
  outFiles,           \* files of textures_traitees: name -> image
  rootWritable,       \* a new entry can be created in the root
  outWritable,        \* a file can be created or replaced in textures_traitees
  pc,                 \* "idle", "loop", "save", "done", "returned", "crashed"
  run,                \* number of runs started
  image_files,        \* sorted list of matching paths
  idx,                \* position of the for loop (1-based)
  nom_fichier,        \* first component returned by extraire_texture_gabor
  texture_image,      \* second component returned by extraire_texture_gabor
  console,            \* lines printed by the current run
  ops,                \* file operations of the current run, in order
  prev                \* output directory, inputs and operations before this run

fs == <<dir, outKind, outFiles, rootWritable, outWritable>>
vars == <<repertoire_racine, dir, outKind, outFiles, rootWritable, outWritable,
          pc, run, image_files, idx, nom_fichier, texture_image, console, ops, prev>>

Ligne(m, a, k) == [msg |-> m, arg |-> a, n |-> k]

\* the file a path names, as the file system resolves it
Ouvrir(root, entries, path) ==
  LET S == { n \in DOMAIN entries : Join(RStripSep(root), n) = path }
  IN IF S = {} THEN [kind |-> "illisible", pix |-> 0] ELSE entries[CHOOSE n \in S : TRUE]

\* cv2.imread: the decoded colour image, or None when the file cannot be decoded
Imread(f) == IF f.kind = "ok" \/ f.kind = "invalide" THEN [fmt |-> "bgr", pix |-> f.pix] ELSE None

\* cv2.cvtColor(img, COLOR_BGR2GRAY)
CvtColor(img) == [fmt |-> "gray", pix |-> img.pix]

\* cv2.filter2D(gray, CV_8UC3, getGaborKernel(...)): a function of the pixels only
Filter2D(gray) == [fmt |-> "gabor", pix |-> gray.pix]

\* a processing stage (cvtColor, getGaborKernel, filter2D) raises on this file
StageRaises(f) == f.kind = "invalide"

ExtraireSansControle(image_path, f) ==
  [nom |-> Basename(image_path),
   img |-> Filter2D(CvtColor([fmt |-> "bgr", pix |-> f.pix])),
   log |-> <<>>]

\* extraire_texture_gabor(image_path, **gabor_params): the returned pair and
\* the lines it prints
extraire_texture_gabor(image_path, f) ==
  LET img == Imread(f)
  IN IF img = None
     THEN [nom |-> Basename(image_path), img |-> None,
           log |-> <<Ligne("erreur_chargement", image_path, 0)>>]
     ELSE IF StageRaises(f)
     THEN [nom |-> Basename(image_path), img |-> None,
           log |-> <<Ligne("erreur_traitement", image_path, 0)>>]
     ELSE [nom |-> Basename(image_path), img |-> Filter2D(CvtColor(img)), log |-> <<>>]

AucuneImageJamais(files) == FALSE

\* if not image_files
AucuneImage(files) == files = <<>>

EnregistrerToujours(img) == TRUE

\* if texture_image is not None
DoitEnregistrer(img) == img # None

MakedirsSansExistOk(kind, rootW) == kind = "absent" /\ rootW

\* os.makedirs(repertoire_sortie, exist_ok=True) returns (TRUE) or raises (FALSE)
Makedirs(kind, rootW) ==
  CASE kind = "dir" -> TRUE
    [] kind = "file" -> FALSE
    [] kind = "absent" -> rootW

\* nom_sortie = f"texture_{nom_fichier.replace('.ppm', '.png')}"
NomSortie(nom) == TEXTURE \o Replace(nom, PPM, PNG)

RepertoireSortie(root) == Join(root, TEXTURES_TRAITEES)

\* cv2.imwrite(path, img) returns True (file written) or False (nothing written)
Imwrite(writable) == writable

Init ==
  /\ repertoire_racine \in Racines
  /\ \E S \in SUBSET NomsPossibles :
       /\ Cardinality(S) <= MaxFiles
       /\ dir \in [S -> Fichiers]
  /\ outKind \in {"absent", "dir", "file"}
  /\ outFiles = <<>>
  /\ rootWritable \in IF outKind = "absent" THEN BOOLEAN ELSE {TRUE}
  /\ outWritable \in IF outKind = "dir" THEN BOOLEAN ELSE {TRUE}
  /\ pc = "idle"
  /\ run = 0
  /\ image_files = <<>>
  /\ idx = 1
  /\ nom_fichier = <<>>
  /\ texture_image = None
  /\ console = <<>>
  /\ ops = <<>>
  /\ prev = [outKind |-> outKind, outFiles |-> outFiles, image_files |-> <<>>, ops |-> <<>>]

\* a call of balayer_et_traiter_images: discovery, early exit, start line
Lancer ==
  /\ pc \in {"idle", "done", "returned", "crashed"}
  /\ run < MaxRuns
  /\ run' = run + 1
  /\ prev' = [outKind |-> outKind, outFiles |-> outFiles,
              image_files |-> image_files, ops |-> ops]
  /\ image_files' = Sorted(Glob(repertoire_racine, DOMAIN dir))
  /\ ops' = <<>>
  /\ idx' = 1
  /\ nom_fichier' = <<>>
  /\ texture_image' = None
  /\ IF AucuneImage(image_files')
     THEN /\ console' = <<Ligne("aucune_image", repertoire_racine, 0)>>
          /\ pc' = "returned"
     ELSE /\ console' = <<Ligne("demarrage", <<>>, Len(image_files'))>>
          /\ pc' = "loop"
  /\ UNCHANGED <<repertoire_racine, fs>>

\* one iteration, first half: the call of extraire_texture_gabor
Extraire ==
  /\ pc = "loop"
  /\ idx <= Len(image_files)
  /\ LET image_path == image_files[idx]
         r == extraire_texture_gabor(image_path, Ouvrir(repertoire_racine, dir, image_path))
     IN /\ nom_fichier' = r.nom
        /\ texture_image' = r.img
        /\ console' = console \o r.log
        /\ ops' = Append(ops, [op |-> "imread", path |-> image_path,
                               src |-> image_path, ok |-> r.img # None])
  /\ pc' = "save"
  /\ UNCHANGED <<repertoire_racine, fs, run, image_files, idx, prev>>

\* one iteration, second half: the body of the if and the advance of the loop
Enregistrer ==
  /\ pc = "save"
  /\ LET image_path == image_files[idx]
         repertoire_sortie == RepertoireSortie(repertoire_racine)
         nom_sortie == NomSortie(nom_fichier)
         chemin == Join(repertoire_sortie, nom_sortie)
         cree == Makedirs(outKind, rootWritable)
         ecrit == Imwrite(IF outKind = "absent" THEN TRUE ELSE outWritable)
         extraite == Ligne("texture_extraite", nom_fichier, 0)
     IN IF ~DoitEnregistrer(texture_image)
        THEN /\ pc' = "loop"
             /\ idx' = idx + 1
             /\ UNCHANGED <<outKind, outFiles, outWritable, console, ops>>
        ELSE IF ~cree
        THEN \* os.makedirs raises: the exception leaves the function
             /\ pc' = "crashed"
             /\ console' = Append(console, extraite)
             /\ ops' = Append(ops, [op |-> "makedirs", path |-> repertoire_sortie,
                                    src |-> image_path, ok |-> FALSE])
             /\ UNCHANGED <<outKind, outFiles, outWritable, idx>>
        ELSE /\ pc' = "loop"
             /\ idx' = idx + 1
             /\ outKind' = "dir"
             /\ outWritable' = IF outKind = "absent" THEN TRUE ELSE outWritable
             /\ outFiles' = IF ecrit THEN Put(outFiles, nom_sortie, texture_image)
                            ELSE outFiles
             /\ console' = console \o <<extraite, Ligne("image_enregistree", chemin, 0)>>
             /\ ops' = ops \o <<[op |-> "makedirs", path |-> repertoire_sortie,
                                 src |-> image_path, ok |-> TRUE],
                                [op |-> "imwrite", path |-> chemin,
                                 src |-> image_path, ok |-> ecrit]>>
  /\ UNCHANGED <<repertoire_racine, dir, rootWritable, run, image_files,
                 nom_fichier, texture_image, prev>>

\* the loop is exhausted: the completion line
Terminer ==
  /\ pc = "loop"
  /\ idx > Len(image_files)
  /\ console' = Append(console, Ligne("termine", <<>>, 0))
  /\ pc' = "done"
  /\ UNCHANGED <<repertoire_racine, fs, run, image_files, idx, nom_fichier,
                 texture_image, ops, prev>>

Next == Lancer \/ Extraire \/ Enregistrer \/ Terminer

Spec == Init /\ [][Next]_vars


\* ------------------------------------------------------------ properties
Correspondants == { n \in DOMAIN dir : StartsWith(n, PREFIXE) /\ EndsWith(n, PPM) }
Bons == { n \in Correspondants : dir[n].kind = "ok" }
Mauvais == Correspondants \ Bons
Chemin(n) == RStripSep(repertoire_racine) \o <<SEP>> \o n
NomDe(p) == CHOOSE n \in DOMAIN dir : Chemin(n) = p
Indices(seq, Test(_)) == { i \in DOMAIN seq : Test(seq[i]) }
EstLecture(o) == o.op = "imread"
EstEcriture(o) == o.op = "imwrite"
EstErreur(l) == l.msg = "erreur_chargement" \/ l.msg = "erreur_traitement"
Fini == pc \in {"done", "returned", "crashed"}
\* nothing in the file system stands in the way of creating and writing outputs
SortieDisponible == outKind # "file" /\ rootWritable /\ outWritable

\* the output files a run over the paths of seq leaves, starting from files
RECURSIVE Reference(_, _)
Reference(seq, files) ==
  IF seq = <<>> THEN files
  ELSE Reference(Tail(seq),
                 Put(files, TEXTURE \o Replace(NomDe(Head(seq)), PPM, PNG),
                     [fmt |-> "gabor", pix |-> dir[NomDe(Head(seq))].pix]))

\* C1: a completed run over N matching files, all readable and processable,
\* from an empty or absent output directory, leaves exactly N output files.
C1_ExactementN ==
  (pc = "done" /\ run = 1 /\ SortieDisponible /\ Mauvais = {})
    => Cardinality(DOMAIN outFiles) = Cardinality(Correspondants)

\* C2: with exactly one failing file among the matching files, a completed run
\* leaves the output files of a run over the good files alone, performs one
\* write per good file and none for the bad one, and prints one failure line.
C2_Isolation ==
  (pc = "done" /\ SortieDisponible /\ Cardinality(Mauvais) = 1)
    => /\ outFiles = Reference(Sorted({ Chemin(n) : n \in Bons }), prev.outFiles)
       /\ Cardinality(Indices(console, EstErreur)) = 1
       /\ Cardinality(Indices(ops, EstEcriture)) = Cardinality(Correspondants) - 1
       /\ \A i \in Indices(ops, EstEcriture) : ops[i].ok /\ NomDe(ops[i].src) \in Bons

C2_Witness ==
  /\ pc = "done" /\ SortieDisponible /\ Cardinality(Mauvais) = 1
  /\ Len(image_files) = 3
  /\ NomDe(image_files[2]) \in Mauvais
  /\ Cardinality(DOMAIN outFiles) = 2

\* C3: a run over a non-empty set of matching files never ends abnormally:
\* it is in the loop or has printed the completion line.
C3_JamaisFatal ==
  (run >= 1 /\ Correspondants # {}) => pc \in {"loop", "save", "done"}

\* C4: with no matching file, the run prints the single "no image" line,
\* performs no file operation, changes nothing on disk and returns.
C4_EntreeVide ==
  (run >= 1 /\ Correspondants = {})
    => /\ pc = "returned"
       /\ console = <<Ligne("aucune_image", repertoire_racine, 0)>>
       /\ ops = <<>>
       /\ outKind = prev.outKind
       /\ DOMAIN outFiles = {}

C4_Witness ==
  /\ pc = "returned" /\ DOMAIN dir # {} /\ outKind = "absent"
  /\ Len(console) = 1

\* C5: a run that follows another run on the same root discovers the same
\* inputs, performs the same writes at the same paths and leaves the output
\* directory as the previous run left it, with at most one file per input.
C5_Idempotence ==
  (run >= 2 /\ Fini)
    => /\ outKind = prev.outKind
       /\ outFiles = prev.outFiles
       /\ image_files = prev.image_files
       /\ SelectSeq(ops, EstEcriture) = SelectSeq(prev.ops, EstEcriture)
       /\ Cardinality(DOMAIN outFiles) <= Len(image_files)

C5_Witness ==
  /\ run = 2 /\ pc = "done"
  /\ Cardinality(DOMAIN outFiles) >= 2
  /\ Len(SelectSeq(ops, EstEcriture)) >= 2

\* C6: every output is written to <root>/textures_traitees/ under the name
\* texture_ + the input name with only its trailing .ppm replaced by .png.
C6_Nommage ==
  \A i \in Indices(ops, EstEcriture) :
    LET n == NomDe(ops[i].src)
    IN ops[i].path = RStripSep(repertoire_racine) \o <<SEP>> \o TEXTURES_TRAITEES
                       \o <<SEP>> \o TEXTURE \o SubSeq(n, 1, Len(n) - Len(PPM)) \o PNG

\* C7: a call of extraire_texture_gabor returns to its caller the base name
\* of the path and either the filtered image or the absent value, absent
\* exactly when the file cannot be loaded or a stage raises, and leaves the
\* file system as it was.
C7_Contrat ==
  [][(pc = "loop" /\ idx <= Len(image_files))
       => LET n == NomDe(image_files[idx])
          IN /\ pc' = "save"
             /\ nom_fichier' = n
             /\ (texture_image' = None) <=> (dir[n].kind # "ok")
             /\ (texture_image' # None)
                  => texture_image' = [fmt |-> "gabor", pix |-> dir[n].pix]
             /\ UNCHANGED fs]_vars

C7_Witness ==
  /\ pc = "save" /\ texture_image = None
  /\ console[Len(console)].msg = "erreur_traitement"

\* C8: the files are loaded in increasing lexicographic order of their paths,
\* none twice and none skipped; each write follows the load of its own input
\* with no other load in between; the completion line is printed only after
\* every matching file has been loaded.
C8_Ordre ==
  LET L == SelectSeq(ops, EstLecture)
  IN /\ \A i, j \in DOMAIN L : i < j => StrLess(L[i].path, L[j].path)
     /\ \A i \in DOMAIN L : L[i].path = image_files[i]
     /\ { L[i].path : i \in DOMAIN L } \subseteq { Chemin(n) : n \in Correspondants }
     /\ \A j \in Indices(ops, EstEcriture) :
          \E i \in 1..(j - 1) :
            /\ ops[i].op = "imread" /\ ops[i].path = ops[j].src
            /\ \A k \in (i + 1)..(j - 1) : ops[k].op # "imread"
     /\ (\E i \in DOMAIN console : console[i].msg = "termine")
          => Len(L) = Cardinality(Correspondants)

C8_Witness ==
  /\ pc = "done" /\ Len(image_files) = 3
  /\ Cardinality(Indices(ops, EstEcriture)) = 3

\* C9: the run creates textures_traitees only after some file has given a
\* present result; a run in which every matching file fails creates neither
\* the directory nor a file and still prints the completion line.
C9_Repertoire ==
  /\ (prev.outKind = "absent" /\ outKind = "dir")
       => \E i \in Indices(ops, EstLecture) : NomDe(ops[i].path) \in Bons
  /\ (run >= 1 /\ Correspondants # {} /\ Bons = {} /\ pc \notin {"loop", "save"})
       => /\ pc = "done"
          /\ outKind = prev.outKind
          /\ DOMAIN outFiles = DOMAIN prev.outFiles
          /\ console[Len(console)].msg = "termine"

C9_Witness ==
  /\ pc = "done" /\ Cardinality(Correspondants) >= 2 /\ Bons = {}
  /\ outKind = "absent"

\* C10: whenever the "image saved" line has been printed for a path, a file
\* exists at that path.
C10_EnregistreeSiEcrite ==
  \A i \in DOMAIN console :
    console[i].msg = "image_enregistree"
      => /\ outKind = "dir"
         /\ \E n \in DOMAIN outFiles :
              RStripSep(repertoire_racine) \o <<SEP>> \o TEXTURES_TRAITEES
                \o <<SEP>> \o n = console[i].arg

====
